---- MODULE Spec2Model ----
(***************************************************************************)
(* Network discovery engine of network-operations: the NetworkScanner      *)
(* class of src/src/engine/scanner.ts together with the two tables it      *)
(* writes (network_scans, discovered_devices) and the classify_device      *)
(* handler of src/src/mcp/server.ts.                                       *)
(*                                                                         *)
(* Text values the code inspects character by character (MAC addresses,    *)
(* vendor names) are sequences of one-character strings; other text is a   *)
(* one-element sequence holding the text.  SQL NULL, JavaScript undefined  *)
(* and the empty string are all the empty sequence, which is the only      *)
(* falsy text.  An async function is a task: each action is the code that  *)
(* runs between two awaits, ending with the awaited database statement.    *)
(***************************************************************************)
EXTENDS Integers, Sequences, FiniteSets, TLC

\* ------------------------------------------------------------- bounds
MaxScans == 2       \* startScan calls that persist a job
MaxArp == 3         \* lines one `arp -a` output holds
MaxClassify == 1    \* classify_device tool calls (classification or link)
MaxPorts == 2       \* ports one direct scanPorts call is given
MaxSweeps == 1      \* scans whose ping sweep is followed ping by ping

\* ------------------------------------------------------------- values
Null == <<>>

\* a || b on text
OrElse(a, b) == IF a # Null THEN a ELSE b

Some(x) == <<x>>

LowerLetters == <<"a","b","c","d","e","f","g","h","i","j","k","l","m","n","o","p","q","r","s","t","u","v","w","x","y","z">>
UpperLetters == <<"A","B","C","D","E","F","G","H","I","J","K","L","M","N","O","P","Q","R","S","T","U","V","W","X","Y","Z">>

UpperChar(c) ==
    IF \E k \in DOMAIN LowerLetters : LowerLetters[k] = c
    THEN UpperLetters[CHOOSE k \in DOMAIN LowerLetters : LowerLetters[k] = c]
    ELSE c

LowerChar(c) ==
    IF \E k \in DOMAIN UpperLetters : UpperLetters[k] = c
    THEN LowerLetters[CHOOSE k \in DOMAIN UpperLetters : UpperLetters[k] = c]
    ELSE c

toUpperCase(s) == [k \in DOMAIN s |-> UpperChar(s[k])]
toLowerCase(s) == [k \in DOMAIN s |-> LowerChar(s[k])]

\* s.substring(0, n)
Substring0(s, n) == SubSeq(s, 1, IF n < Len(s) THEN n ELSE Len(s))

\* s.includes(sub)
Includes(s, sub) ==
    \E k \in 0..(Len(s) - Len(sub)) : SubSeq(s, k + 1, k + Len(sub)) = sub

\* s.replace(/[:-]/g, ':')
ReplaceDelims(s) == [k \in DOMAIN s |-> IF s[k] = "-" THEN ":" ELSE s[k]]

\* ------------------------------------------------------------- OUI table
\* The entries of COMMON_MAC_VENDORS the modelled hosts can hit or miss, one
\* per device-type branch plus the table's one lower-case key.
COMMON_MAC_VENDORS ==
    { <<<<"0","0",":","5","0",":","5","6">>, <<"V","M","w","a","r","e">>>>,
      <<<<"F","0",":","9","F",":","C","2">>, <<"U","b","i","q","u","i","t","i">>>>,
      <<<<"D","0",":","2","1",":","F","9">>, <<"S","y","n","o","l","o","g","y">>>>,
      <<<<"B","8",":","2","7",":","E","B">>, <<"R","a","s","p","b","e","r","r","y"," ","P","i">>>>,
      <<<<"6","6",":","4","8",":","e","6">>, <<"S","t","a","r","l","i","n","k">>>>,
      <<<<"3","C",":","5","2",":","8","2">>, <<"H","e","w","l","e","t","t"," ","P","a","c","k","a","r","d">>>> }

lookupMacVendor(mac) ==
    IF mac = Null THEN Null
    ELSE LET normalizedMac == ReplaceDelims(toUpperCase(mac))
             prefix == Substring0(normalizedMac, 8)
         IN  IF \E e \in COMMON_MAC_VENDORS : e[1] = prefix
             THEN (CHOOSE e \in COMMON_MAC_VENDORS : e[1] = prefix)[2]
             ELSE Null

guessDeviceType(vendor) ==
    IF vendor = Null THEN "unknown"
    ELSE LET v == toLowerCase(vendor) IN
         IF Includes(v, <<"u","b","i","q","u","i","t","i">>) THEN "access_point"
         ELSE IF Includes(v, <<"s","y","n","o","l","o","g","y">>)
                 \/ Includes(v, <<"q","n","a","p">>) THEN "nas"
         ELSE IF Includes(v, <<"r","a","s","p","b","e","r","r","y">>) THEN "iot"
         ELSE IF Includes(v, <<"a","p","p","l","e">>) THEN "workstation"
         ELSE IF Includes(v, <<"v","m","w","a","r","e">>)
                 \/ Includes(v, <<"m","i","c","r","o","s","o","f","t">>)
                 \/ Includes(v, <<"h","y","p","e","r","-","v">>)
                 \/ Includes(v, <<"q","e","m","u">>)
                 \/ Includes(v, <<"v","i","r","t","u","a","l","b","o","x">>) THEN "server"
         ELSE IF Includes(v, <<"n","e","t","g","e","a","r">>)
                 \/ Includes(v, <<"t","p","-","l","i","n","k">>)
                 \/ Includes(v, <<"d","-","l","i","n","k">>) THEN "router"
         ELSE IF Includes(v, <<"h","p">>)
                 \/ Includes(v, <<"h","e","w","l","e","t","t">>) THEN "workstation"
         ELSE IF Includes(v, <<"s","t","a","r","l","i","n","k">>) THEN "router"
         ELSE IF Includes(v, <<"g","o","o","g","l","e">>)
                 \/ Includes(v, <<"n","e","s","t">>) THEN "iot"
         ELSE "unknown"

\* ------------------------------------------------------------- interfaces
RECURSIVE BitAnd(_, _)
BitAnd(a, b) ==
    IF a = 0 \/ b = 0 THEN 0
    ELSE (a % 2) * (b % 2) + 2 * BitAnd(a \div 2, b \div 2)

\* (part >>> 0).toString(2).split('1').length - 1
RECURSIVE OneBits(_)
OneBits(n) == IF n = 0 THEN 0 ELSE (n % 2) + OneBits(n \div 2)

\* The text "a.b.c.d/bits" is the record [base |-> <<a,b,c,d>>, bits |-> bits].
ipToCidr(ip, netmask) ==
    [base |-> [k \in 1..4 |-> BitAnd(ip[k], netmask[k])],
     bits |-> OneBits(netmask[1]) + OneBits(netmask[2])
              + OneBits(netmask[3]) + OneBits(netmask[4])]

\* os.networkInterfaces(), flattened in enumeration order
Loopback == [name |-> "lo0", family |-> "IPv4", internal |-> TRUE,
             address |-> <<127,0,0,1>>, netmask |-> <<255,0,0,0>>]
Ethernet == [name |-> "en0", family |-> "IPv4", internal |-> FALSE,
             address |-> <<192,168,1,10>>, netmask |-> <<255,255,255,0>>]
EthernetV6 == [name |-> "en0", family |-> "IPv6", internal |-> FALSE,
               address |-> <<0,0,0,1>>, netmask |-> <<255,255,0,0>>]

InterfaceConfigs ==
    { <<>>, <<Loopback>>, <<Loopback, EthernetV6>>, <<Loopback, Ethernet>> }

\* Mutant: the !addr.internal test is dropped.
getLocalNetworksWithInternal(interfaces) ==
    LET usable == SelectSeq(interfaces, LAMBDA a : a.family = "IPv4")
    IN  [k \in DOMAIN usable |->
            [interface |-> usable[k].name,
             cidr |-> ipToCidr(usable[k].address, usable[k].netmask),
             ip |-> usable[k].address]]

getLocalNetworks(interfaces) ==
    LET usable == SelectSeq(interfaces,
                            LAMBDA a : a.family = "IPv4" /\ ~a.internal)
    IN  [k \in DOMAIN usable |->
            [interface |-> usable[k].name,
             cidr |-> ipToCidr(usable[k].address, usable[k].netmask),
             ip |-> usable[k].address]]

\* ------------------------------------------------------------- ARP harvest
MacRaspberry == <<"b","8",":","2","7",":","e","b",":","1","2",":","3","4",":","5","6">>
MacUnlisted == <<"0","2",":","4","2",":","a","c",":","1","1",":","0","0",":","0","2">>

\* One line of `arp -a` the regex matches: "? (ip) at mac on en0 ...".
\* Two hosts: a Raspberry Pi at .1, and a host of an unlisted vendor that is
\* seen at .2 or, once it has been leased the first address, at .1.
ArpLines ==
    { [ip |-> <<192,168,1,1>>, mac |-> MacRaspberry],
      [ip |-> <<192,168,1,1>>, mac |-> MacUnlisted],
      [ip |-> <<192,168,1,2>>, mac |-> MacUnlisted] }

\* The neighbour table lists a line once.
ArpTables ==
    { t \in UNION { [1..n -> ArpLines] : n \in 0..MaxArp } :
        \A a, b \in DOMAIN t : a # b => t[a] # t[b] }

\* What one execAsync('arp -a') gives: the lines, or a rejection.
ArpReads == [ok : {TRUE}, lines : ArpTables] \cup { [ok |-> FALSE, lines |-> <<>>] }

ScanResult(ip, mac) ==
    [ipAddress |-> ip,
     macAddress |-> toUpperCase(mac),
     vendor |-> lookupMacVendor(mac),
     isAlive |-> TRUE]

\* First pass: every matching line is pushed.
ParseArp(lines) == [k \in DOMAIN lines |-> ScanResult(lines[k].ip, lines[k].mac)]

\* Reads of one scanArp call: the sweep leaves the table as it was or makes
\* new lines appear after the ones already there; either read may reject.
IsPrefix(a, b) == Len(a) <= Len(b) /\ SubSeq(b, 1, Len(a)) = a

ArpReadPairs ==
    { p \in ArpReads \X ArpReads :
        (p[1].ok /\ p[2].ok) => IsPrefix(p[1].lines, p[2].lines) }

\* The pairs in which the table is the same at both reads.
StableReadPairs == { p \in ArpReadPairs : p[1] = p[2] }

\* Second pass: a line is pushed unless results already hold its IP.
RECURSIVE MergeArp(_, _)
MergeArp(results, newLines) ==
    IF newLines = <<>> THEN results
    ELSE LET l == Head(newLines) IN
         IF \E k \in DOMAIN results : results[k].ipAddress = l.ip
         THEN MergeArp(results, Tail(newLines))
         ELSE MergeArp(Append(results, ScanResult(l.ip, l.mac)), Tail(newLines))

\* first: the read before the ping sweep; second: the read after it.
scanArp(cidr, first, second) ==
    IF ~first.ok THEN <<>>
    ELSE IF cidr = Null THEN ParseArp(first.lines)
    ELSE IF ~second.ok THEN ParseArp(first.lines)
    ELSE MergeArp(ParseArp(first.lines), second.lines)

\* ------------------------------------------------------------- port probe
DefaultPorts == <<22, 80, 443, 8080, 8443>>

\* Sets of ports a probed host accepts connections on.
PortProfiles == { {}, {22}, {80, 443} }

\* Mutant: a port whose connect fails gets no entry.
scanPortsOpenOnly(ports, accepting) ==
    LET reached == SelectSeq(ports, LAMBDA p : p \in accepting)
    IN  [k \in DOMAIN reached |-> [port |-> reached[k], open |-> TRUE]]

\* accepting: the ports for which `nc -z` exits 0; for every other port
\* execAsync rejects and the catch pushes open: false.
scanPorts(ports, accepting) ==
    [k \in DOMAIN ports |-> [port |-> ports[k], open |-> ports[k] \in accepting]]

\* ports.filter(p => p.open).map(p => p.port)
OpenPortsOf(ports) ==
    LET open == SelectSeq(ports, LAMBDA p : p.open)
    IN  [k \in DOMAIN open |-> open[k].port]

\* ------------------------------------------------------------- inputs
ScanTypes == {"arp", "mdns", "port", "snmp", "full", "quick"}
ScanTypeInputs == {"arp", "full"}
Classifications == {"known", "unknown", "suspicious", "authorized", "blocked"}

Cidr24 == [base |-> <<192,168,1,0>>, bits |-> 24]
ScanOptionsInputs == [targetNetwork : {Null, Cidr24}, scanType : ScanTypeInputs]

NoNetworksMessage == <<"No local networks found">>
DatabaseMessage == <<"database is locked">>

\* ------------------------------------------------------------- state
VARIABLES
    scans,          \* table network_scans, in insertion order; id = position
    devices,        \* table discovered_devices, in rowid order
    activeScanId,   \* NetworkScanner.activeScanId, 0 for null
    tasks,          \* per scan id: the startScan/runScan task's locals
    clock,          \* Date.now()
    response,       \* outcome of the latest tool call that returned
    lastObs,        \* the observation the latest reconciliation wrote
    classified,     \* per device id: classification of the latest classifyDevice
    toolCalls,      \* classify_device calls made
    linking,        \* classify_device handler between its two updates: <<deviceId, linkToDeviceId>>
    work,           \* per scan id: results reconciled, records inserted, and
                    \* the open ports its latest scanPorts found
    sweep,          \* per scan id: the locals of scanArp and pingSweep, and what its pings did
    call            \* the latest direct call of a helper: its name, arguments and result

vars == <<scans, devices, activeScanId, tasks, clock, response, lastObs,
          classified, toolCalls, linking, work, sweep, call>>

NoScan == 0

IdleTask ==
    [pc |-> "idle", scanType |-> "arp", targetNetwork |-> Null, now |-> 0,
     devicesFound |-> 0, newDevicesFound |-> 0, arpResults |-> <<>>,
     i |-> 0, existing |-> <<>>, error |-> Null]

\* scanArp not entered: no results, no ping started, nothing logged.
IdleSweep ==
    [pc |-> "read", first |-> <<>>, results |-> <<>>, probes |-> <<>>, i |-> 0,
     answering |-> {}, replied |-> {}, expired |-> 0, logged |-> Null]

Init ==
    /\ scans = <<>>
    /\ devices = <<>>
    /\ activeScanId = NoScan
    /\ tasks = [s \in 1..MaxScans |-> IdleTask]
    /\ clock = 0
    /\ response = [op |-> "none", error |-> Null, result |-> NoScan]
    /\ lastObs = Null
    /\ classified = <<>>
    /\ toolCalls = 0
    /\ linking = Null
    /\ work = [s \in 1..MaxScans |->
                  [processed |-> 0, inserted |-> 0, open |-> Null]]
    /\ sweep = [s \in 1..MaxScans |-> IdleSweep]
    /\ call = [fn |-> "none", args |-> <<>>, out |-> Null]

\* ------------------------------------------------------------- rows
NewJob(id, options, targetNetwork, now) ==
    [id |-> id,
     scanType |-> options.scanType,
     targetNetwork |-> targetNetwork,
     status |-> "running",
     progress |-> 0,
     devicesFound |-> 0,
     newDevicesFound |-> 0,
     startedAt |-> Some(now),
     completedAt |-> Null,
     durationMs |-> Null,
     errorMessage |-> Null,
     createdAt |-> now]

ProgressFields(job, progress) == [job EXCEPT !.progress = progress]

CompletedFields(job, devicesFound, newDevicesFound, now, completedAt) ==
    [job EXCEPT !.status = "completed",
                !.progress = 100,
                !.devicesFound = devicesFound,
                !.newDevicesFound = newDevicesFound,
                !.completedAt = Some(completedAt),
                !.durationMs = Some(completedAt - now)]

\* Mutant: the failure handler also closes the progress bar.
FailedFieldsFullProgress(job, message, at) ==
    [job EXCEPT !.status = "failed",
                !.progress = 100,
                !.errorMessage = message,
                !.completedAt = Some(at)]

FailedFields(job, message, at) ==
    [job EXCEPT !.status = "failed",
                !.errorMessage = message,
                !.completedAt = Some(at)]

NewDevice(id, result, now, scanId) ==
    [id |-> id,
     ipAddress |-> result.ipAddress,
     macAddress |-> OrElse(result.macAddress, Null),
     macVendor |-> OrElse(result.vendor, Null),
     classification |-> "unknown",
     deviceType |-> guessDeviceType(result.vendor),
     linkedDeviceId |-> Null,
     firstSeenAt |-> now,
     lastSeenAt |-> now,
     lastScanId |-> scanId,
     responseTimeMs |-> Null,
     isReachable |-> result.isAlive,
     openPorts |-> Null,
     notes |-> Null]

\* Mutant: the update writes the insert's classification and firstSeenAt too.
UpdatedDeviceAsInserted(row, first, result, now, scanId) ==
    [row EXCEPT !.ipAddress = result.ipAddress,
                !.macAddress = OrElse(result.macAddress, first.macAddress),
                !.macVendor = OrElse(result.vendor, first.macVendor),
                !.classification = "unknown",
                !.firstSeenAt = now,
                !.lastSeenAt = now,
                !.lastScanId = scanId,
                !.isReachable = result.isAlive]

\* Mutant: the update leaves the address the record was first seen at.
UpdatedDeviceKeepsAddress(row, first, result, now, scanId) ==
    [row EXCEPT !.macAddress = OrElse(result.macAddress, first.macAddress),
                !.macVendor = OrElse(result.vendor, first.macVendor),
                !.lastSeenAt = now,
                !.lastScanId = scanId,
                !.isReachable = result.isAlive]

\* first is existing[0], the row as the select read it.
UpdatedDevice(row, first, result, now, scanId) ==
    [row EXCEPT !.ipAddress = result.ipAddress,
                !.macAddress = OrElse(result.macAddress, first.macAddress),
                !.macVendor = OrElse(result.vendor, first.macVendor),
                !.lastSeenAt = now,
                !.lastScanId = scanId,
                !.isReachable = result.isAlive]

\* eq(column, value): NULL equals nothing
SqlEq(column, value) == column # Null /\ column = value

\* Mutant: the stored MAC is compared with the MAC as `arp -a` printed it,
\* and the IP is not compared.
MatchesResultRawMac(row, result) ==
    SqlEq(row.macAddress, toLowerCase(OrElse(result.macAddress, Null)))

\* or(eq(macAddress, result.macAddress || ''), eq(ipAddress, result.ipAddress))
MatchesResult(row, result) ==
    \/ SqlEq(row.macAddress, OrElse(result.macAddress, Null))
    \/ row.ipAddress = result.ipAddress

SelectExisting(rows, result) == SelectSeq(rows, LAMBDA d : MatchesResult(d, result))

\* update ... where eq(discoveredDevices.id, id); set[k] is rows[k] with the
\* set clause applied
UpdateById(rows, id, set) ==
    [k \in DOMAIN rows |-> IF rows[k].id = id THEN set[k] ELSE rows[k]]

\* update ... set openPorts where eq(discoveredDevices.ipAddress, ip)
SetOpenPorts(rows, ip, openPorts) ==
    [k \in DOMAIN rows |->
        IF rows[k].ipAddress = ip THEN [rows[k] EXCEPT !.openPorts = openPorts]
        ELSE rows[k]]

ClassifiedFields(row, classification, notes) ==
    [row EXCEPT !.classification = classification,
                !.notes = IF notes # Null THEN notes ELSE @]

\* Mutant: the where clause is built and dropped.
getDiscoveredDevicesUnfiltered(rows, filter) == rows

getDiscoveredDevices(rows, filter) ==
    IF filter.classification # Null
    THEN SelectSeq(rows, LAMBDA d : Some(d.classification) = filter.classification)
    ELSE rows

\* ------------------------------------------------------------- startScan
ResolveTarget(options, interfaces) ==
    IF options.targetNetwork # Null THEN options.targetNetwork
    ELSE LET networks == getLocalNetworks(interfaces) IN
         IF Len(networks) > 0 THEN networks[1].cidr ELSE Null

Unfinished(s) == tasks[s].pc \notin {"idle", "done"}

\* startScan up to the awaited insert of the job.  ok: the insert succeeds.
StartScan(options, interfaces, ok) ==
    LET targetNetwork == ResolveTarget(options, interfaces)
        scanId == Len(scans) + 1
    IN  /\ Len(scans) < MaxScans
        /\ IF targetNetwork = Null
           THEN /\ response' = [op |-> "startScan", error |-> NoNetworksMessage,
                                result |-> NoScan]
                /\ UNCHANGED <<scans, tasks>>
           ELSE IF ~ok
           THEN /\ response' = [op |-> "startScan", error |-> DatabaseMessage,
                                result |-> NoScan]
                /\ UNCHANGED <<scans, tasks>>
           ELSE /\ scans' = Append(scans, NewJob(scanId, options, targetNetwork, clock))
                /\ tasks' = [tasks EXCEPT ![scanId] =
                                [IdleTask EXCEPT !.pc = "inserted",
                                                 !.scanType = options.scanType,
                                                 !.targetNetwork = targetNetwork]]
                /\ UNCHANGED response
        /\ UNCHANGED <<devices, activeScanId, clock, lastObs, classified, toolCalls, linking, work, sweep, call>>

\* After the insert: activeScanId is set, runScan starts (now = new Date())
\* and runs to its first await, and startScan returns the id.
Activate(s) ==
    /\ tasks[s].pc = "inserted"
    /\ activeScanId' = s
    /\ tasks' = [tasks EXCEPT ![s].pc = "progress10", ![s].now = clock]
    /\ response' = [op |-> "startScan", error |-> Null, result |-> s]
    /\ UNCHANGED <<scans, devices, clock, lastObs, classified, toolCalls, linking, work, sweep, call>>

\* ------------------------------------------------------------- runScan
\* An awaited statement of runScan rejects: catch rethrows, finally clears
\* activeScanId, and the promise runScan returned is rejected.
Reject(s) ==
    /\ activeScanId' = NoScan
    /\ tasks' = [tasks EXCEPT ![s].pc = "catch", ![s].error = DatabaseMessage]
    /\ UNCHANGED <<scans, devices, clock, response, lastObs, classified, toolCalls, linking, work, sweep, call>>

\* The task is over: its locals are dead.  arpResults stays as the record of
\* what the scan observed.
Finished(t) ==
    [IdleTask EXCEPT !.pc = "done", !.scanType = t.scanType,
                     !.arpResults = t.arpResults]

\* Mutant: 'quick' runs the port pass too, as the tool describes it.
AfterLoopQuickPorts(s) ==
    IF tasks[s].scanType \in {"full", "port", "quick"} THEN "progress70"
    ELSE "complete"

AfterLoop(s) ==
    IF tasks[s].scanType \in {"full", "port"} THEN "progress70" ELSE "complete"

Progress10(s, ok) ==
    /\ tasks[s].pc = "progress10"
    /\ IF ok
       THEN /\ scans' = [scans EXCEPT ![s] = ProgressFields(@, 10)]
            /\ tasks' = [tasks EXCEPT ![s].pc = "arp"]
            /\ UNCHANGED <<devices, activeScanId, clock, response, lastObs,
                           classified, toolCalls, linking, work, sweep, call>>
       ELSE Reject(s)

\* scanArp: both reads of the neighbour table and the ping sweep between them.
ScanArp(s, first, second) ==
    /\ tasks[s].pc = "arp"
    /\ tasks' = [tasks EXCEPT ![s].pc = "progress50",
                              ![s].arpResults =
                                  scanArp(tasks[s].targetNetwork, first, second)]
    /\ clock' = clock + 1
    /\ UNCHANGED <<scans, devices, activeScanId, response, lastObs, classified,
                   toolCalls, linking, work, sweep, call>>

Progress50(s, ok) ==
    /\ tasks[s].pc = "progress50"
    /\ IF ok
       THEN /\ scans' = [scans EXCEPT ![s] = ProgressFields(@, 50)]
            /\ tasks' = [tasks EXCEPT
                   ![s].pc = IF tasks[s].arpResults = <<>> THEN AfterLoop(s)
                             ELSE "select",
                   ![s].i = 1]
            /\ UNCHANGED <<devices, activeScanId, clock, response, lastObs,
                           classified, toolCalls, linking, work, sweep, call>>
       ELSE Reject(s)

\* devicesFound++ and the select of the rows matching arpResults[i]
Select(s, ok) ==
    /\ tasks[s].pc = "select"
    /\ IF ok
       THEN /\ tasks' = [tasks EXCEPT
                   ![s].pc = "write",
                   ![s].devicesFound = @ + 1,
                   ![s].existing =
                       SelectExisting(devices, tasks[s].arpResults[tasks[s].i])]
            /\ UNCHANGED <<scans, devices, activeScanId, clock, response, lastObs,
                           classified, toolCalls, linking, work, sweep, call>>
       ELSE Reject(s)

\* The insert or the update of the loop body, then the next iteration.
Write(s, ok) ==
    LET t == tasks[s]
        result == t.arpResults[t.i]
    IN  /\ t.pc = "write"
        /\ IF ok
           THEN /\ devices' =
                      IF Len(t.existing) = 0
                      THEN Append(devices,
                                  NewDevice(Len(devices) + 1, result, t.now, s))
                      ELSE UpdateById(devices, t.existing[1].id,
                               [k \in DOMAIN devices |->
                                   UpdatedDevice(devices[k], t.existing[1],
                                                 result, t.now, s)])
                /\ tasks' = [tasks EXCEPT
                       ![s].pc = IF t.i < Len(t.arpResults) THEN "select"
                                 ELSE AfterLoop(s),
                       ![s].i = IF t.i < Len(t.arpResults) THEN t.i + 1 ELSE 1,
                       ![s].newDevicesFound =
                           IF Len(t.existing) = 0 THEN @ + 1 ELSE @,
                       ![s].existing = <<>>]
                /\ lastObs' = result
                /\ work' = [work EXCEPT
                       ![s].processed = @ + 1,
                       ![s].inserted = IF Len(t.existing) = 0 THEN @ + 1 ELSE @]
                /\ UNCHANGED <<scans, activeScanId, clock, response, classified,
                               toolCalls, linking, sweep, call>>
           ELSE Reject(s)

Progress70(s, ok) ==
    /\ tasks[s].pc = "progress70"
    /\ IF ok
       THEN /\ scans' = [scans EXCEPT ![s] = ProgressFields(@, 70)]
            /\ tasks' = [tasks EXCEPT
                   ![s].pc = IF tasks[s].arpResults = <<>> THEN "complete"
                             ELSE "ports",
                   ![s].i = 1]
            /\ UNCHANGED <<devices, activeScanId, clock, response, lastObs,
                           classified, toolCalls, linking, work, sweep, call>>
       ELSE Reject(s)

\* Mutant: scanPorts lets the rejection of a failed connect through.
PortScanAborting(s, accepting, ok) ==
    LET t == tasks[s]
        result == t.arpResults[t.i]
        openPorts == OpenPortsOf(scanPorts(DefaultPorts, accepting))
    IN  /\ t.pc = "ports"
        /\ IF Len(openPorts) < Len(DefaultPorts) \/ ~ok
           THEN Reject(s)
           ELSE /\ devices' = SetOpenPorts(devices, result.ipAddress, openPorts)
                /\ tasks' = [tasks EXCEPT
                       ![s].pc = IF t.i < Len(t.arpResults) THEN "ports"
                                 ELSE "complete",
                       ![s].i = IF t.i < Len(t.arpResults) THEN t.i + 1 ELSE 1]
                /\ work' = [work EXCEPT ![s].open = Some(openPorts)]
                /\ UNCHANGED <<scans, activeScanId, clock, response, lastObs,
                               classified, toolCalls, linking, sweep, call>>

\* scanPorts of arpResults[i] and, when a port is open, the update by IP.
PortScan(s, accepting, ok) ==
    LET t == tasks[s]
        result == t.arpResults[t.i]
        openPorts == OpenPortsOf(scanPorts(DefaultPorts, accepting))
    IN  /\ t.pc = "ports"
        /\ IF Len(openPorts) > 0 /\ ~ok
           THEN Reject(s)
           ELSE /\ devices' = IF Len(openPorts) > 0
                              THEN SetOpenPorts(devices, result.ipAddress, openPorts)
                              ELSE devices
                /\ tasks' = [tasks EXCEPT
                       ![s].pc = IF t.i < Len(t.arpResults) THEN "ports"
                                 ELSE "complete",
                       ![s].i = IF t.i < Len(t.arpResults) THEN t.i + 1 ELSE 1]
                /\ work' = [work EXCEPT ![s].open = Some(openPorts)]
                /\ UNCHANGED <<scans, activeScanId, clock, response, lastObs,
                               classified, toolCalls, linking, sweep, call>>

\* Mutant: on completion the records the scan did not see are marked
\* unreachable.
CompleteMarksAbsent(s, ok) ==
    /\ tasks[s].pc = "complete"
    /\ IF ok
       THEN /\ scans' = [scans EXCEPT ![s] =
                   CompletedFields(@, tasks[s].devicesFound,
                                   tasks[s].newDevicesFound, tasks[s].now, clock)]
            /\ devices' = [k \in DOMAIN devices |->
                              IF devices[k].lastScanId = s THEN devices[k]
                              ELSE [devices[k] EXCEPT !.isReachable = FALSE]]
            /\ tasks' = [tasks EXCEPT ![s].pc = "finally"]
            /\ UNCHANGED <<activeScanId, clock, response, lastObs,
                           classified, toolCalls, linking, work, sweep, call>>
       ELSE Reject(s)

Complete(s, ok) ==
    /\ tasks[s].pc = "complete"
    /\ IF ok
       THEN /\ scans' = [scans EXCEPT ![s] =
                   CompletedFields(@, tasks[s].devicesFound,
                                   tasks[s].newDevicesFound, tasks[s].now, clock)]
            /\ tasks' = [tasks EXCEPT ![s].pc = "finally"]
            /\ UNCHANGED <<devices, activeScanId, clock, response, lastObs,
                           classified, toolCalls, linking, work, sweep, call>>
       ELSE Reject(s)

\* Mutant: the failure handler is attached so that it also runs after success.
FinallyRunsHandler(s) ==
    /\ tasks[s].pc = "finally"
    /\ activeScanId' = NoScan
    /\ tasks' = [tasks EXCEPT ![s].pc = "catch"]
    /\ UNCHANGED <<scans, devices, clock, response, lastObs, classified, toolCalls, linking, work, sweep, call>>

\* finally { this.activeScanId = null }
Finally(s) ==
    /\ tasks[s].pc = "finally"
    /\ activeScanId' = NoScan
    /\ tasks' = [tasks EXCEPT ![s] = Finished(tasks[s])]
    /\ UNCHANGED <<scans, devices, clock, response, lastObs, classified, toolCalls, linking, work, sweep, call>>

\* The .catch handler startScan attached to runScan's promise.
\* ok: its update succeeds; otherwise the handler's own promise rejects unobserved.
CatchHandler(s, ok) ==
    /\ tasks[s].pc = "catch"
    /\ scans' = IF ok
                THEN [scans EXCEPT ![s] = FailedFields(@, tasks[s].error, clock)]
                ELSE scans
    /\ tasks' = [tasks EXCEPT ![s] = Finished(tasks[s])]
    /\ UNCHANGED <<devices, activeScanId, clock, response, lastObs, classified,
                   toolCalls, linking, work, sweep, call>>

\* ------------------------------------------------------------- classify_device
\* The handler up to the end of NetworkScanner.classifyDevice; with a
\* linkToDeviceId its own update is still to come.
ClassifyDevice(deviceId, classification, notes, linkToDeviceId) ==
    /\ toolCalls < MaxClassify
    /\ linking = Null
    /\ toolCalls' = toolCalls + 1
    /\ linking' = IF linkToDeviceId # Null THEN <<deviceId, linkToDeviceId>>
                  ELSE Null
    /\ devices' = UpdateById(devices, deviceId,
                      [k \in DOMAIN devices |->
                          ClassifiedFields(devices[k], classification, notes)])
    /\ classified' = [k \in DOMAIN devices |->
                         IF devices[k].id = deviceId THEN Some(classification)
                         ELSE IF k \in DOMAIN classified THEN classified[k]
                         ELSE Null]
    /\ response' = [op |-> "classifyDevice", error |-> Null, result |-> NoScan]
    /\ UNCHANGED <<scans, activeScanId, tasks, clock, lastObs, work, sweep, call>>

\* The handler's own update when linkToDeviceId is given, and its reply.
LinkDevice ==
    /\ linking # Null
    /\ devices' = UpdateById(devices, linking[1],
                      [k \in DOMAIN devices |->
                          [devices[k] EXCEPT !.linkedDeviceId = linking[2]]])
    /\ linking' = Null
    /\ response' = [op |-> "classify_device", error |-> Null, result |-> NoScan]
    /\ UNCHANGED <<scans, activeScanId, tasks, clock, lastObs, classified,
                   toolCalls, work, sweep, call>>

\* ------------------------------------------------------------- specifications
Scans == 1..MaxScans
NotesInputs == {Null, <<"printer on floor 2">>}
ManagedIds == {<<"managed-1">>}
LinkInputs == {Null} \cup ManagedIds

\* Device ids a caller may name: every id issued so far and one never issued.
DeviceIdInputs == 1..(Len(devices) + 1)

\* Reads that show at most one host.
SingleHostReadPairs ==
    { p \in ArpReadPairs : Len(p[1].lines) <= 1 /\ Len(p[2].lines) <= 1 }

ArpScanInputs == [targetNetwork : {Null, Cidr24}, scanType : {"arp"}]

Idle == \A s \in Scans : ~Unfinished(s)

\* The harvest and reconcile pass of runScan, start to end.
Harvest(s, oks, reads) ==
    \/ Activate(s)
    \/ \E ok \in oks : Progress10(s, ok)
    \/ \E p \in reads : ScanArp(s, p[1], p[2])
    \/ \E ok \in oks : Progress50(s, ok)
    \/ \E ok \in oks : Select(s, ok)
    \/ \E ok \in oks : Write(s, ok)
    \/ \E ok \in oks : Complete(s, ok)
    \/ Finally(s)

\* The port pass of a full or port scan.
Ports(s, oks) ==
    \/ \E ok \in oks : Progress70(s, ok)
    \/ \E accepting \in PortProfiles, ok \in oks : PortScan(s, accepting, ok)

Tool ==
    \/ \E d \in DeviceIdInputs, c \in Classifications, n \in NotesInputs,
          l \in LinkInputs :
           ClassifyDevice(d, c, n, l)
    \/ LinkDevice

\* Scans of every type, started whenever a caller likes, over a link with at
\* most one neighbour, with any database statement of a run failing.
Next ==
    \/ \E o \in ScanOptionsInputs, ifs \in InterfaceConfigs, ok \in BOOLEAN :
           StartScan(o, ifs, ok)
    \/ \E s \in Scans : Harvest(s, BOOLEAN, SingleHostReadPairs)
    \/ \E s \in Scans : Ports(s, BOOLEAN)
    \/ \E s \in Scans, ok \in BOOLEAN : CatchHandler(s, ok)

Spec == Init /\ [][Next]_vars

\* ARP scans one after the other (the caller waits for a scan to end before
\* it starts the next; a call that persists no job may come at any time),
\* over every neighbour table, the statements of a run all succeeding.
NextSeq ==
    \/ \E o \in ArpScanInputs, ifs \in InterfaceConfigs, ok \in BOOLEAN :
           /\ Idle \/ ResolveTarget(o, ifs) = Null \/ ~ok
           /\ StartScan(o, ifs, ok)
    \/ \E s \in Scans : Harvest(s, {TRUE}, StableReadPairs)

SpecSeq == Init /\ [][NextSeq]_vars

\* Scans of every type one after the other over a link with at most one
\* neighbour, and the classify_device tool called between and during them.
NextTool ==
    \/ \E o \in ScanOptionsInputs, ifs \in InterfaceConfigs, ok \in BOOLEAN :
           /\ Idle \/ ResolveTarget(o, ifs) = Null \/ ~ok
           /\ StartScan(o, ifs, ok)
    \/ \E s \in Scans : Harvest(s, {TRUE}, SingleHostReadPairs)
    \/ \E s \in Scans : Ports(s, {TRUE})
    \/ Tool

SpecTool == Init /\ [][NextTool]_vars

\* Scans of every type one after the other over every neighbour table, the
\* statements of a run all succeeding.
NextPorts ==
    \/ \E o \in ScanOptionsInputs, ifs \in InterfaceConfigs, ok \in BOOLEAN :
           /\ Idle \/ ResolveTarget(o, ifs) = Null \/ ~ok
           /\ StartScan(o, ifs, ok)
    \/ \E s \in Scans : Harvest(s, {TRUE}, StableReadPairs)
    \/ \E s \in Scans : Ports(s, {TRUE})

SpecPorts == Init /\ [][NextPorts]_vars

\* ------------------------------------------------------------- scanArp, step by step
\* for (let i = 1; i <= 254; i++)
LastHost == 254
batchSize == 50

Cidr16 == [base |-> <<10,20,0,0>>, bits |-> 16]
Cidr30 == [base |-> <<192,168,1,8>>, bits |-> 30]
SweepOptionsInputs ==
    [targetNetwork : {Cidr24, Cidr16, Cidr30}, scanType : ScanTypeInputs]

\* Last octets of the swept addresses whose host answers a ping.
AnsweringProfiles == { {}, {1, 51} }

\* Reads of the neighbour table that show at most one host.
SingleHostReads == { r \in ArpReads : Len(r.lines) <= 1 }

\* Mutant: the loop runs up to and including the broadcast address.
SweepTargetsToBroadcast(cidr) ==
    [i \in 1..(LastHost + 1) |-> <<cidr.base[1], cidr.base[2], cidr.base[3], i>>]

\* The targetIp of the promises pingSweep creates, in creation order.
SweepTargets(cidr) ==
    [i \in 1..LastHost |-> <<cidr.base[1], cidr.base[2], cidr.base[3], i>>]

\* Positions in w.probes of the pings that have settled.  A ping to an
\* answering host resolves when the reply comes; the other pings were started
\* together with the same wait, and end (rejected, caught in pingHost) in the
\* order they were started.
Answered(w) == { k \in DOMAIN w.probes : w.probes[k][4] \in w.answering }
Silent(w) == DOMAIN w.probes \ Answered(w)
Settled(w) ==
    LET answered == Answered(w)
    IN  { k \in DOMAIN w.probes :
            IF k \in answered THEN w.probes[k][4] \in w.replied
            ELSE k - Cardinality({ j \in answered : j < k }) <= w.expired }

\* Pings started and not yet settled.
InFlight(w) == Cardinality(DOMAIN w.probes \ Settled(w))

\* scanArp returns results to runScan; logged: what its catch wrote to the
\* console.  What the pings did stays on record, the locals are gone.
ArpReturns(s, results, logged) ==
    /\ tasks' = [tasks EXCEPT ![s].pc = "progress50", ![s].arpResults = results]
    /\ sweep' = [sweep EXCEPT ![s] =
                    [@ EXCEPT !.pc = "returned", !.first = <<>>, !.results = <<>>,
                              !.probes = <<>>, !.i = 0, !.logged = logged]]
    /\ clock' = clock + 1

\* Mutant: the first read is made outside the try block.
ArpReadUncaught(s, read) ==
    /\ tasks[s].pc = "arp"
    /\ sweep[s].pc = "read"
    /\ IF ~read.ok
       THEN /\ activeScanId' = NoScan
            /\ tasks' = [tasks EXCEPT ![s].pc = "catch",
                                      ![s].error = <<"ARP scan error">>]
            /\ UNCHANGED <<sweep, clock>>
       ELSE /\ sweep' = [sweep EXCEPT ![s].pc = "launch",
                                      ![s].first = read.lines,
                                      ![s].results = ParseArp(read.lines)]
            /\ UNCHANGED <<tasks, clock, activeScanId>>
    /\ UNCHANGED <<scans, devices, response, lastObs, classified,
                   toolCalls, linking, work, call>>

\* The first execAsync('arp -a') and the first pass over its lines.
ArpRead(s, read) ==
    /\ tasks[s].pc = "arp"
    /\ sweep[s].pc = "read"
    /\ IF ~read.ok
       THEN ArpReturns(s, <<>>, <<"ARP scan error">>)
       ELSE IF tasks[s].targetNetwork = Null
       THEN ArpReturns(s, ParseArp(read.lines), Null)
       ELSE /\ sweep' = [sweep EXCEPT ![s].pc = "launch",
                                      ![s].first = read.lines,
                                      ![s].results = ParseArp(read.lines)]
            /\ UNCHANGED <<tasks, clock>>
    /\ UNCHANGED <<scans, devices, activeScanId, response, lastObs, classified,
                   toolCalls, linking, work, call>>

\* pingSweep up to its first await: every pingHost is called, which starts its
\* ping, and the first batch is awaited.
SweepLaunch(s, answering) ==
    /\ sweep[s].pc = "launch"
    /\ sweep' = [sweep EXCEPT ![s].pc = "await",
                              ![s].probes = SweepTargets(tasks[s].targetNetwork),
                              ![s].i = 0,
                              ![s].answering = answering,
                              ![s].replied = {},
                              ![s].expired = 0]
    /\ UNCHANGED <<scans, devices, activeScanId, tasks, clock, response, lastObs,
                   classified, toolCalls, linking, work, call>>

\* The ping of answering host h exits 0.
PingReplies(s, h) ==
    /\ sweep[s].pc = "await"
    /\ h \in sweep[s].answering \ sweep[s].replied
    /\ sweep' = [sweep EXCEPT ![s].replied = @ \cup {h}]
    /\ UNCHANGED <<scans, devices, activeScanId, tasks, clock, response, lastObs,
                   classified, toolCalls, linking, work, call>>

\* The oldest unanswered ping fails; pingHost swallows the rejection.
PingExpires(s) ==
    /\ sweep[s].pc = "await"
    /\ sweep[s].expired < Cardinality(Silent(sweep[s]))
    /\ sweep' = [sweep EXCEPT ![s].expired = @ + 1]
    /\ UNCHANGED <<scans, devices, activeScanId, tasks, clock, response, lastObs,
                   classified, toolCalls, linking, work, call>>

\* await Promise.allSettled(promises.slice(i, i + batchSize)) resumes.
AwaitBatch(s) ==
    LET w == sweep[s]
        slice == { k \in DOMAIN w.probes : w.i < k /\ k <= w.i + batchSize }
    IN  /\ w.pc = "await"
        /\ slice \subseteq Settled(w)
        /\ sweep' = [sweep EXCEPT
               ![s].i = w.i + batchSize,
               ![s].pc = IF w.i + batchSize < Len(w.probes) THEN "await"
                         ELSE "reread"]
        /\ UNCHANGED <<scans, devices, activeScanId, tasks, clock, response,
                       lastObs, classified, toolCalls, linking, work, call>>

\* The second execAsync('arp -a') and the second pass; the table has kept
\* the lines of the first read.
ArpReread(s, read) ==
    /\ tasks[s].pc = "arp"
    /\ sweep[s].pc = "reread"
    /\ read.ok => IsPrefix(sweep[s].first, read.lines)
    /\ IF ~read.ok
       THEN ArpReturns(s, sweep[s].results, <<"ARP scan error">>)
       ELSE ArpReturns(s, MergeArp(sweep[s].results, read.lines), Null)
    /\ UNCHANGED <<scans, devices, activeScanId, response, lastObs, classified,
                   toolCalls, linking, work, call>>

\* One scan at a time, of every type and over three target networks, its
\* ARP harvest followed read by read and ping by ping, the statements of the
\* run all succeeding.
NextSweep ==
    \/ \E o \in SweepOptionsInputs, ifs \in InterfaceConfigs :
           /\ Idle
           /\ Len(scans) < MaxSweeps
           /\ StartScan(o, ifs, TRUE)
    \/ \E s \in Scans :
           \/ Activate(s)
           \/ Progress10(s, TRUE)
           \/ \E read \in SingleHostReads : ArpRead(s, read)
           \/ \E answering \in AnsweringProfiles : SweepLaunch(s, answering)
           \/ \E h \in sweep[s].answering : PingReplies(s, h)
           \/ PingExpires(s)
           \/ AwaitBatch(s)
           \/ \E read \in SingleHostReads : ArpReread(s, read)
           \/ Progress50(s, TRUE)
           \/ Select(s, TRUE)
           \/ Write(s, TRUE)
           \/ Complete(s, TRUE)
           \/ Finally(s)
    \/ \E s \in Scans : Ports(s, {TRUE})

SpecSweep == Init /\ [][NextSweep]_vars

\* ------------------------------------------------------------- direct calls
\* How one `nc -z -w 1 ip port` ends.
ConnectOutcomes == {"connected", "refused", "timeout", "unreachable"}
PortInputs == {22, 80, 443}
ConnectProfiles == [PortInputs -> ConnectOutcomes]
PortListInputs == UNION { [1..n -> PortInputs] : n \in 0..MaxPorts }

\* The ports of a host on which the connect succeeds.
Accepting(connects) == { p \in DOMAIN connects : connects[p] = "connected" }

OuiSuffix == <<":","0","0",":","0","0",":","0","1">>

\* Dash-delimited form of a colon-delimited MAC.
Dashed(mac) == [k \in DOMAIN mac |-> IF mac[k] = ":" THEN "-" ELSE mac[k]]

\* MAC texts a caller may pass: one address per table entry as the table
\* spells its prefix, and in upper case, lower case and dash-delimited form;
\* an unlisted address; and texts that are no MAC address.
MacInputs ==
    LET listed == { e[1] \o OuiSuffix : e \in COMMON_MAC_VENDORS }
        colon == listed \cup {MacRaspberry, MacUnlisted}
    IN  colon
        \cup { toUpperCase(m) : m \in colon }
        \cup { toLowerCase(m) : m \in colon }
        \cup { Dashed(m) : m \in colon }
        \cup { Null, <<"b","8","2","7","e","b","1","2","3","4","5","6">>,
               <<"b","8",":","2","7">>, <<"n","o","t"," ","a"," ","m","a","c">> }

CallScanPorts(ports, connects) ==
    /\ call' = [fn |-> "scanPorts", args |-> <<ports, connects>>,
                out |-> scanPorts(ports, Accepting(connects))]
    /\ UNCHANGED <<scans, devices, activeScanId, tasks, clock, response, lastObs,
                   classified, toolCalls, linking, work, sweep>>

CallLookupMacVendor(mac) ==
    /\ call' = [fn |-> "lookupMacVendor", args |-> <<mac>>,
                out |-> lookupMacVendor(mac)]
    /\ UNCHANGED <<scans, devices, activeScanId, tasks, clock, response, lastObs,
                   classified, toolCalls, linking, work, sweep>>

\* The helpers called directly, on every input.
NextCalls ==
    \/ \E ports \in PortListInputs, connects \in ConnectProfiles :
           CallScanPorts(ports, connects)
    \/ \E mac \in MacInputs : CallLookupMacVendor(mac)

SpecCalls == Init /\ [][NextCalls]_vars

\* ------------------------------------------------------------- claims
Running(s) == scans[s].status = "running"
Terminal(s) == scans[s].status \in {"completed", "failed"}

\* C1: at most one ScanJob has status 'running' in every reachable state,
\* also when startScan is called while an earlier scan has not finished.
C1_AtMostOneRunning ==
    Cardinality({ s \in DOMAIN scans : Running(s) }) <= 1

\* C2: a job's status moves only from running to completed or from running to
\* failed, and no step writes any field of a job that is completed or failed.
C2_TerminalJobsImmutable ==
    [][\A s \in DOMAIN scans :
          /\ Terminal(s) => scans'[s] = scans[s]
          /\ scans'[s].status # scans[s].status =>
                 /\ scans[s].status = "running"
                 /\ scans'[s].status \in {"completed", "failed"}]_vars

\* A completed job and a failed job, both with their tasks over.
C2_Witness ==
    \E s, t \in DOMAIN scans :
        /\ scans[s].status = "completed" /\ tasks[s].pc = "done"
        /\ scans[t].status = "failed" /\ tasks[t].pc = "done"

\* C3: the progress values written to a job never decrease; a completed job
\* has progress 100 and a failed job has progress below 100.
C3_ProgressMonotone ==
    /\ [](\A s \in DOMAIN scans :
             /\ scans[s].status = "completed" => scans[s].progress = 100
             /\ scans[s].status = "failed" => scans[s].progress < 100)
    /\ [][\A s \in DOMAIN scans : scans'[s].progress >= scans[s].progress]_vars

\* A job that failed late, at 70, beside a completed one.
C3_Witness ==
    \E s, t \in DOMAIN scans :
        /\ scans[s].status = "failed" /\ scans[s].progress = 70
        /\ scans[t].status = "completed"

\* The observation a task at its write step is reconciling.
Observation(s) == tasks[s].arpResults[tasks[s].i]

\* A reconciliation (select, then insert or update) of task s completes.
Reconciles(s) == tasks[s].pc = "write" /\ tasks'[s].pc # "write"

\* C4: reconciling the observation that was reconciled last creates no
\* record and changes nothing but lastSeenAt and lastScanId of one record.
C4_RepeatObservation ==
    [][\A s \in Scans :
          (Reconciles(s) /\ lastObs = Observation(s)) =>
              /\ Len(devices') = Len(devices)
              /\ \E k \in DOMAIN devices :
                     /\ devices' = [devices EXCEPT
                            ![k].lastSeenAt = devices'[k].lastSeenAt,
                            ![k].lastScanId = devices'[k].lastScanId]
                     /\ devices'[k].lastSeenAt = tasks[s].now
                     /\ devices'[k].lastScanId = s]_vars

\* The second scan has reconciled, as its first observation, the last
\* observation of the first scan, with two records in the store.
C4_Witness ==
    /\ Len(devices) >= 2
    /\ tasks[2].devicesFound = 1 /\ tasks[2].pc \in {"select", "complete"}
    /\ lastObs = tasks[2].arpResults[1]
    /\ lastObs = tasks[1].arpResults[Len(tasks[1].arpResults)]

\* C5: no step changes firstSeenAt of an existing device; its classification
\* and notes change only in classifyDevice on it, and its linkedDeviceId only
\* in the link update on it.
C5_ScansKeepOperatorFields ==
    [][\A k \in DOMAIN devices :
          /\ devices'[k].firstSeenAt = devices[k].firstSeenAt
          /\ ( \/ devices'[k].classification # devices[k].classification
               \/ devices'[k].notes # devices[k].notes ) =>
                 \E c \in Classifications, n \in NotesInputs, l \in LinkInputs :
                     ClassifyDevice(devices[k].id, c, n, l)
          /\ devices'[k].linkedDeviceId # devices[k].linkedDeviceId =>
                 (linking # Null /\ linking[1] = devices[k].id /\ LinkDevice)]_vars

\* A device the operator classified with notes and linked, then seen again
\* and given open ports by the second scan.
C5_Witness ==
    /\ response = [op |-> "startScan", error |-> Null, result |-> 2]
    /\ \E k \in DOMAIN devices :
           /\ devices[k].classification # "unknown"
           /\ devices[k].notes # Null
           /\ devices[k].linkedDeviceId # Null
           /\ devices[k].lastScanId = 2
           /\ devices[k].firstSeenAt < devices[k].lastSeenAt
           /\ devices[k].openPorts # Null

\* C6: a completed scan run again over the same neighbour table, nothing in
\* between, reports the same devicesFound and newDevicesFound = 0, creates no
\* record, and every record it observed has its lastSeenAt advanced.
C6_RescanFindsNothingNew ==
    \A s \in DOMAIN scans :
        ( /\ s > 1
          /\ scans[s].status = "completed" /\ scans[s - 1].status = "completed"
          /\ scans[s].scanType = scans[s - 1].scanType
          /\ scans[s].targetNetwork = scans[s - 1].targetNetwork
          /\ tasks[s].arpResults = tasks[s - 1].arpResults
          /\ tasks[s].pc = "done" ) =>
            /\ scans[s].devicesFound = scans[s - 1].devicesFound
            /\ scans[s].newDevicesFound = 0
            /\ \A k \in DOMAIN devices :
                   /\ Some(devices[k].firstSeenAt) # scans[s].startedAt
                   /\ (\E j \in DOMAIN tasks[s].arpResults :
                           MatchesResult(devices[k], tasks[s].arpResults[j]))
                          => Some(devices[k].lastSeenAt) = scans[s].startedAt

\* C7: no two DiscoveredDevice records have the same macAddress and no two
\* have the same ipAddress.
C7_UniqueIdentity ==
    \A a, b \in DOMAIN devices :
        a # b => /\ devices[a].macAddress # devices[b].macAddress
                 /\ devices[a].ipAddress # devices[b].ipAddress

\* The claim's precondition: no local non-loopback IPv4 interface.
NoUsableInterface(interfaces) ==
    \A k \in DOMAIN interfaces :
        ~(interfaces[k].family = "IPv4" /\ ~interfaces[k].internal)

\* C8: startScan without targetNetwork, no usable interface existing, fails
\* with the no-network error; no job is persisted, no device is touched and
\* activeScanId keeps its value.
C8_NoNetworkLeavesState ==
    [][\A o \in ScanOptionsInputs, ifs \in InterfaceConfigs, ok \in BOOLEAN :
          ( /\ o.targetNetwork = Null
            /\ NoUsableInterface(ifs)
            /\ StartScan(o, ifs, ok) ) =>
              /\ response'.op = "startScan"
              /\ response'.error = NoNetworksMessage
              /\ UNCHANGED <<scans, devices, activeScanId, tasks>>]_vars

\* The call failed while a scan was active.
C8_Witness ==
    /\ response = [op |-> "startScan", error |-> NoNetworksMessage,
                   result |-> NoScan]
    /\ activeScanId # NoScan

\* C9: classifyDevice with an id that matches no device fails with a
\* not-found error and leaves every record unchanged.
C9_UnknownIdFails ==
    [][\A d \in DeviceIdInputs, c \in Classifications, n \in NotesInputs,
         l \in LinkInputs :
          ( /\ ~\E k \in DOMAIN devices : devices[k].id = d
            /\ ClassifyDevice(d, c, n, l) ) =>
              /\ response'.error # Null
              /\ devices' = devices]_vars

\* Ids of the rows getDiscoveredDevices({classification}) returns.
ListedAs(classification) ==
    LET rows == getDiscoveredDevices(devices,
                                     [classification |-> Some(classification)])
    IN  { rows[k].id : k \in DOMAIN rows }

\* C10: from classifyDevice(id, X) until the next classifyDevice on id, the
\* devices listed under X include id and those listed under any other
\* classification do not, whatever scans run meanwhile.
C10_ClassifyRoundTrip ==
    \A k \in DOMAIN classified :
        classified[k] # Null =>
            \A X \in Classifications :
                devices[k].id \in ListedAs(X) <=> classified[k] = Some(X)

\* A device classified before the second scan started and seen by that scan.
C10_Witness ==
    /\ response = [op |-> "startScan", error |-> Null, result |-> 2]
    /\ \E k \in DOMAIN classified :
           /\ classified[k] = Some("blocked")
           /\ devices[k].lastScanId = 2

\* C11: when a statement of a run raises, the caller of startScan is not
\* told (the response it got stays as it is), and when the failure handler
\* has run the job is failed with the error's message and completedAt set.
C11_RunErrorEndsFailed ==
    [][\A s \in Scans :
          /\ (tasks[s].pc # "catch" /\ tasks'[s].pc = "catch") =>
                 response' = response
          /\ (tasks[s].pc = "catch" /\ tasks'[s].pc = "done") =>
                 /\ response' = response
                 /\ scans'[s].status = "failed"
                 /\ scans'[s].errorMessage = tasks[s].error
                 /\ scans'[s].errorMessage # Null
                 /\ scans'[s].completedAt # Null]_vars

\* C12: a completed or failed job's devicesFound is the number of results
\* its scan reconciled and its newDevicesFound the number of records its
\* scan inserted, so newDevicesFound <= devicesFound.
C12_CountersMatchWork ==
    \A s \in DOMAIN scans :
        Terminal(s) =>
            /\ scans[s].devicesFound = work[s].processed
            /\ scans[s].newDevicesFound = work[s].inserted
            /\ scans[s].newDevicesFound <= scans[s].devicesFound

\* C19: every device has firstSeenAt <= lastSeenAt, and no step lowers the
\* lastSeenAt of a device, scans that overlap included.
C19_LastSeenMonotone ==
    /\ [](\A k \in DOMAIN devices :
             devices[k].firstSeenAt <= devices[k].lastSeenAt)
    /\ [][\A k \in DOMAIN devices :
             devices'[k].lastSeenAt >= devices[k].lastSeenAt]_vars

\* C15: scanPorts gives one entry per requested port, in the order asked,
\* with open = TRUE exactly when the connect to that port succeeded, whatever
\* way the other connects failed.
C15_ScanPortsOneEntryPerPort ==
    call.fn = "scanPorts" =>
        LET ports == call.args[1]
            connects == call.args[2]
        IN  /\ Len(call.out) = Len(ports)
            /\ \A k \in DOMAIN ports :
                   /\ call.out[k].port = ports[k]
                   /\ call.out[k].open <=> connects[ports[k]] = "connected"

\* A call over two ports, the first refused and the second connected.
C15_Witness ==
    /\ call.fn = "scanPorts"
    /\ Len(call.args[1]) = 2
    /\ call.args[2][call.args[1][1]] = "refused"
    /\ call.args[2][call.args[1][2]] = "connected"
    /\ call.out = <<[port |-> call.args[1][1], open |-> FALSE],
                    [port |-> call.args[1][2], open |-> TRUE]>>

\* The vendor the table lists for the OUI of mac: its first three octets in
\* upper-case colon-delimited form, compared with the table's prefixes
\* whatever their letter case.
ReferenceVendor(mac) ==
    LET oui == Substring0(ReplaceDelims(toUpperCase(mac)), 8)
        hits == { e \in COMMON_MAC_VENDORS : toUpperCase(e[1]) = oui }
    IN  IF hits = {} THEN Null ELSE (CHOOSE e \in hits : TRUE)[2]

\* C20: lookupMacVendor returns the vendor the table lists for the OUI of its
\* argument, the same for every letter case and delimiter, and absent for
\* an unlisted or malformed argument.
C20_LookupAgreesWithTable ==
    call.fn = "lookupMacVendor" =>
        LET mac == call.args[1]
        IN  /\ call.out = ReferenceVendor(mac)
            /\ call.out = lookupMacVendor(toUpperCase(mac))
            /\ call.out = lookupMacVendor(toLowerCase(mac))
            /\ call.out = lookupMacVendor(Dashed(mac))

\* C13: one ping sweep probes at most 254 addresses, each once: exactly the
\* addresses with the first three octets of the target's base address and a
\* last octet of 1 to 254, whatever the prefix length of the target.
C13_SweepProbes254 ==
    \A s \in Scans :
        sweep[s].probes # <<>> =>
            LET probes == sweep[s].probes
                base == tasks[s].targetNetwork.base
                probed == { probes[k] : k \in DOMAIN probes }
            IN  /\ Len(probes) <= 254
                /\ Cardinality(probed) = Len(probes)
                /\ probed = { <<base[1], base[2], base[3], h>> : h \in 1..254 }

\* The sweep of a /16 target has been awaited to its last batch.
C13_Witness ==
    \E s \in Scans :
        /\ sweep[s].pc = "reread"
        /\ sweep[s].probes # <<>>
        /\ tasks[s].targetNetwork.bits = 16

\* C14: at most 50 pings of a sweep are in flight at any moment.
C14_AtMostBatchInFlight ==
    \A s \in Scans : InFlight(sweep[s]) <= 50

\* scanArp returned after logging an error without having started a ping:
\* its first read of the neighbour table failed.
FirstReadFailed(s) ==
    /\ sweep[s].pc = "returned"
    /\ sweep[s].logged # Null
    /\ sweep[s].expired = 0 /\ sweep[s].replied = {}

\* C17: scanArp never raises.  When its first read fails it returns no
\* entries, and the scan ends completed with devicesFound = 0; when the read
\* after the sweep fails it returns the entries of the first read.
C17_ScanArpNeverRaises ==
    /\ [](\A s \in DOMAIN scans :
             /\ sweep[s].logged # Null => scans[s].status # "failed"
             /\ (FirstReadFailed(s) /\ tasks[s].pc = "done") =>
                    /\ scans[s].status = "completed"
                    /\ scans[s].devicesFound = 0)
    /\ [][\A s \in Scans, read \in SingleHostReads :
             /\ (~read.ok /\ ArpRead(s, read)) =>
                    /\ tasks'[s].pc = "progress50"
                    /\ tasks'[s].arpResults = <<>>
             /\ (~read.ok /\ ArpReread(s, read)) =>
                    /\ tasks'[s].pc = "progress50"
                    /\ tasks'[s].arpResults = ParseArp(sweep[s].first)]_vars

\* A scan over and completed whose first read of the neighbour table failed.
C17_Witness ==
    \E s \in DOMAIN scans :
        /\ FirstReadFailed(s)
        /\ tasks[s].pc = "done"
        /\ scans[s].status = "completed"

\* C18: when every database statement succeeds, no run is rejected and a
\* scan that is over is completed, whichever pings and connects failed: a
\* failed ping leaves the sweep waiting as before, and a port probe moves the
\* run on to the next host or to completion.
C18_ProbeFailuresNeverAbort ==
    /\ [](\A s \in DOMAIN scans :
             /\ tasks[s].pc # "catch"
             /\ tasks[s].pc = "done" => scans[s].status = "completed")
    /\ [][\A s \in Scans :
             /\ PingExpires(s) => (sweep'[s].pc = "await" /\ tasks' = tasks)
             /\ tasks[s].pc = "ports" => tasks'[s].pc \in {"ports", "complete"}]_vars

\* A completed full scan of one host: none of the 254 pings was answered and
\* none of the connects to the host succeeded.
C18_Witness ==
    \E s \in DOMAIN scans :
        /\ scans[s].status = "completed"
        /\ scans[s].scanType = "full"
        /\ scans[s].devicesFound = 1
        /\ sweep[s].expired = 254
        /\ \A k \in DOMAIN devices : devices[k].openPorts = Null

\* C16: when the port probe of a host finds a port open, the device of that
\* host (the record holding the host's MAC) gets exactly the list of the open
\* ports as its openPorts, and no other device has its openPorts changed.
C16_OpenPortsOfProbedHost ==
    [][\A s \in Scans, accepting \in PortProfiles :
          (accepting # {} /\ PortScan(s, accepting, TRUE)) =>
              LET host == Observation(s)
                  open == OpenPortsOf(scanPorts(DefaultPorts, accepting))
              IN  /\ \E k \in DOMAIN devices :
                         /\ devices[k].macAddress = host.macAddress
                         /\ devices'[k].openPorts = open
                  /\ \A k \in DOMAIN devices :
                         devices'[k].openPorts # devices[k].openPorts =>
                             devices[k].macAddress = host.macAddress]_vars

\* ------------------------------------------------------------- getScanHistory
MaxLimit == 2
LimitInputs == 0..MaxLimit

\* orderBy(networkScans.createdAt): the rows ascending by createdAt; rows
\* created in the same millisecond come in any order.
OrderedByCreatedAt(rows) ==
    LET n == Len(rows)
        orders == { p \in [1..n -> 1..n] :
                      /\ \A a, b \in 1..n : a # b => p[a] # p[b]
                      /\ \A k \in 1..(n - 1) :
                             rows[p[k]].createdAt <= rows[p[k + 1]].createdAt }
    IN  { [k \in 1..n |-> rows[p[k]]] : p \in orders }

\* Mutant: orderBy(desc(networkScans.createdAt))
getScanHistoryNewestFirst(rows, limit) ==
    LET n == Len(rows)
        m == IF limit < n THEN limit ELSE n
    IN  { [k \in 1..m |-> o[n + 1 - k]] : o \in OrderedByCreatedAt(rows) }

\* select().from(networkScans).orderBy(createdAt).limit(limit): the results
\* the statement can give
getScanHistory(rows, limit) ==
    LET n == Len(rows)
        m == IF limit < n THEN limit ELSE n
    IN  { SubSeq(o, 1, m) : o \in OrderedByCreatedAt(rows) }

GetScanHistory(limit) ==
    /\ \E out \in getScanHistory(scans, limit) :
           call' = [fn |-> "getScanHistory", args |-> <<limit>>, out |-> out]
    /\ UNCHANGED <<scans, devices, activeScanId, tasks, clock, response, lastObs,
                   classified, toolCalls, linking, work, sweep>>

\* ARP scans started whenever a caller likes over a link with at most one
\* neighbour, the statements all succeeding, and the history read at any time.
NextHistory ==
    \/ \E o \in ArpScanInputs, ifs \in InterfaceConfigs : StartScan(o, ifs, TRUE)
    \/ \E s \in Scans : Harvest(s, {TRUE}, SingleHostReadPairs)
    \/ \E limit \in LimitInputs : GetScanHistory(limit)

SpecHistory == Init /\ [][NextHistory]_vars

\* C21: getScanHistory(limit) returns min(limit, number of jobs) of the jobs,
\* each once, in non-decreasing createdAt order; no job left out was created
\* before a job returned; and the call changes nothing but its own result.
C21_HistoryEarliestFirst ==
    [][(call' # call /\ call'.fn = "getScanHistory") =>
          LET limit == call'.args[1]
              out == call'.out
              n == Len(scans)
          IN  /\ Len(out) = IF limit < n THEN limit ELSE n
              /\ \A k \in DOMAIN out : \E j \in DOMAIN scans : out[k] = scans[j]
              /\ \A a, b \in DOMAIN out : a # b => out[a].id # out[b].id
              /\ \A k \in 1..(Len(out) - 1) :
                     out[k].createdAt <= out[k + 1].createdAt
              /\ \A j \in DOMAIN scans :
                     (\A k \in DOMAIN out : out[k].id # scans[j].id) =>
                         \A k \in DOMAIN out :
                             out[k].createdAt <= scans[j].createdAt
              /\ UNCHANGED <<scans, devices, activeScanId, tasks, clock,
                             response, lastObs, classified, toolCalls, linking,
                             work, sweep>>]_vars

\* Two jobs created at different times and a history of one: the older job.
C21_Witness ==
    /\ call.fn = "getScanHistory"
    /\ call.args = <<1>>
    /\ Len(scans) = 2
    /\ scans[1].createdAt < scans[2].createdAt
    /\ Len(call.out) = 1
    /\ call.out[1].id = 1

\* ------------------------------------------------------------- every scan type
ScanTypeOptionsInputs == [targetNetwork : {Null, Cidr24}, scanType : ScanTypes]

\* Scans of each of the six types one after the other over a link with at
\* most one neighbour, the statements of a run all succeeding.
NextTypes ==
    \/ \E o \in ScanTypeOptionsInputs, ifs \in InterfaceConfigs, ok \in BOOLEAN :
           /\ Idle \/ ResolveTarget(o, ifs) = Null \/ ~ok
           /\ StartScan(o, ifs, ok)
    \/ \E s \in Scans : Harvest(s, {TRUE}, SingleHostReadPairs)
    \/ \E s \in Scans : Ports(s, {TRUE})

SpecTypes == Init /\ [][NextTypes]_vars

C23_MacMatchFollowsHost ==
    [][\A s \in Scans :
          Reconciles(s) =>
              LET obs == Observation(s)
                  byMac == { k \in DOMAIN devices :
                               SqlEq(devices[k].macAddress, obs.macAddress) }
              IN  ( /\ Cardinality(byMac) = 1
                    /\ \A k \in DOMAIN devices :
                           devices[k].ipAddress # obs.ipAddress ) =>
                      /\ Len(devices') = Len(devices)
                      /\ \E k \in byMac :
                             devices' = [devices EXCEPT
                                 ![k].ipAddress = obs.ipAddress,
                                 ![k].lastSeenAt = tasks[s].now,
                                 ![k].lastScanId = s]]_vars

\* The unlisted host was recorded at .2 by the first scan and seen at .1 by
\* the second: one record, now at .1, last seen by the second scan.
C23_Witness ==
    /\ Len(devices) = 1
    /\ tasks[1].arpResults = <<ScanResult(<<192,168,1,2>>, MacUnlisted)>>
    /\ tasks[2].arpResults = <<ScanResult(<<192,168,1,1>>, MacUnlisted)>>
    /\ devices[1].ipAddress = <<192,168,1,1>>
    /\ devices[1].macAddress = toUpperCase(MacUnlisted)
    /\ devices[1].lastScanId = 2
    /\ devices[1].firstSeenAt < devices[1].lastSeenAt

\* The ports a record lists as open.
ListedPorts(d) == IF d.openPorts = Null THEN <<>> ELSE d.openPorts

\* The port pass of task s has probed a host and moved on.
Probes(s) ==
    /\ tasks[s].pc = "ports"
    /\ tasks'[s].pc \in {"ports", "complete"}
    /\ tasks'[s] # tasks[s]

\* C24: when the port pass of a scan has probed a host, the record of that
\* host lists exactly the ports the probe found open, none when it found none.
C24_OpenPortsRefreshed ==
    [][\A s \in Scans :
          Probes(s) =>
              LET host == Observation(s)
                  found == work'[s].open[1]
              IN  \A k \in DOMAIN devices :
                      ( /\ devices[k].ipAddress = host.ipAddress
                        /\ devices[k].macAddress = host.macAddress ) =>
                          ListedPorts(devices'[k]) = found]_vars

\* ------------------------------------------------------------- progress of a run
\* Any step of the task of an ARP scan s after the insert of its job.
RunStep(s) ==
    \/ Harvest(s, BOOLEAN, SingleHostReadPairs)
    \/ \E ok \in BOOLEAN : CatchHandler(s, ok)

\* ARP scans one after the other over a link with at most one neighbour, with
\* any database statement of a run failing.
NextLive ==
    \/ \E o \in ArpScanInputs, ifs \in InterfaceConfigs, ok \in BOOLEAN :
           /\ Idle \/ ResolveTarget(o, ifs) = Null \/ ~ok
           /\ StartScan(o, ifs, ok)
    \/ \E s \in Scans : RunStep(s)

\* Every awaited probe and statement of a run returns, with its result or
\* with an error, so that the task takes its next step.
SpecLive == Init /\ [][NextLive]_vars /\ \A s \in Scans : WF_vars(RunStep(s))

\* C25: every job in the store is, from some moment on, completed or failed.
C25_EveryJobEnds ==
    \A s \in Scans :
        [](s \in DOMAIN scans => <>(s \in DOMAIN scans /\ Terminal(s)))

\* C26: once no scan is in flight, no two records describe the same host:
\* no two hold the same MAC together with the same IP.
C26_OneRecordPerObservedHost ==
    Idle =>
        \A a, b \in DOMAIN devices :
            (a # b /\ devices[a].macAddress = devices[b].macAddress) =>
                devices[a].ipAddress # devices[b].ipAddress

\* C27: while the run of some scan is between its first statement and its
\* completion update, activeScanId names a job, and that job is running.
C27_HandleNamesRunningScan ==
    (\E s \in Scans :
         tasks[s].pc \in {"progress10", "arp", "progress50", "select", "write",
                          "progress70", "ports", "complete"}) =>
        /\ activeScanId # NoScan
        /\ scans[activeScanId].status = "running"

\* C28: each record's macVendor is what lookupMacVendor gives for the
\* record's macAddress.
C28_VendorOfCurrentMac ==
    \A k \in DOMAIN devices :
        devices[k].macVendor = lookupMacVendor(devices[k].macAddress)

\* The first three octets of an IPv4 address as a number.
UpperOctets(ip) == (ip[1] * 256 + ip[2]) * 256 + ip[3]

\* ip agrees with the base address of cidr on the first cidr.bits bits.
InCidr(ip, cidr) ==
    IF cidr.bits <= 24
    THEN LET span == 2 ^ (24 - cidr.bits)
         IN  UpperOctets(ip) \div span = UpperOctets(cidr.base) \div span
    ELSE LET span == 2 ^ (32 - cidr.bits)
         IN  /\ UpperOctets(ip) = UpperOctets(cidr.base)
             /\ ip[4] \div span = cidr.base[4] \div span

\* C29: every address the ping sweep of a scan probes lies inside the scan's
\* target network.
C29_SweepStaysInTarget ==
    \A s \in Scans :
        \A k \in DOMAIN sweep[s].probes :
            InCidr(sweep[s].probes[k], tasks[s].targetNetwork)

\* C30: every record in the store has isReachable = TRUE.
C30_AlwaysReachable ==
    \A k \in DOMAIN devices : devices[k].isReachable = TRUE

\* The first scan recorded a host; the second scan completed without seeing
\* it and recorded another: both records are reachable.
C30_Witness ==
    /\ Len(devices) = 2
    /\ Len(scans) = 2 /\ scans[2].status = "completed"
    /\ devices[1].lastScanId = 1 /\ devices[2].lastScanId = 2
    /\ \A i \in DOMAIN tasks[2].arpResults :
           tasks[2].arpResults[i].ipAddress # devices[1].ipAddress
    /\ devices[1].isReachable /\ devices[2].isReachable

====
